---------------------------- MODULE Spec2Model ----------------------------
(***************************************************************************)
(* Model of app.py: the Flask routes "/", "/chat" and "/api/chat", the    *)
(* two document extractors, the prompt templates and the two Gemini       *)
(* gateway functions.                                                      *)
(*                                                                         *)
(* A Python string is a sequence of tokens; a token is a TLA+ string that *)
(* stands for a non-empty run of characters ("" is <<>>).  Concatenation  *)
(* and f-string interpolation are \o.  A JSON / Python value is a record  *)
(* tagged with the Python type name in field t.                           *)
(***************************************************************************)
EXTENDS Integers, Sequences, FiniteSets, TLC

(***************************************************************************)
(* Bounds of the model.                                                    *)
(***************************************************************************)
MaxFileDataLen == 4
MaxPages == 2
MaxParagraphs == 2

(***************************************************************************)
(* Python values.                                                          *)
(***************************************************************************)
None == [t |-> "NoneType"]
Str(s) == [t |-> "str", s |-> s]
Num(n) == [t |-> "int", n |-> n]
List(e) == [t |-> "list", e |-> e]
Dict(f) == [t |-> "dict", f |-> f]
EmptyDict == Dict(<<>>)

\* A raised exception travelling through an expression.
Raise(type, msg) == [t |-> "raise", type |-> type, msg |-> msg]
IsRaise(v) == v.t = "raise"

\* bool(v)
Truthy(v) ==
  CASE v.t = "NoneType" -> FALSE
    [] v.t = "str" -> v.s # <<>>
    [] v.t = "int" -> v.n # 0
    [] v.t = "list" -> v.e # <<>>
    [] v.t = "dict" -> DOMAIN v.f # {}

\* str(v), as f-string interpolation applies it
PyStr(v) ==
  CASE v.t = "str" -> v.s
    [] v.t = "NoneType" -> <<"None">>
    [] v.t = "int" -> <<ToString(v.n)>>
    [] v.t = "list" -> <<"[">> \o (IF v.e = <<>> THEN <<>> ELSE <<"...">>) \o <<"]">>
    [] v.t = "dict" -> <<"{">> \o (IF DOMAIN v.f = {} THEN <<>> ELSE <<"...">>) \o <<"}">>

\* s.startswith(prefix)
StartsWith(s, prefix) ==
  /\ Len(s) >= Len(prefix)
  /\ SubSeq(s, 1, Len(prefix)) = prefix

\* needle in s
Contains(s, needle) ==
  \E i \in 0..(Len(s) - Len(needle)) : SubSeq(s, i + 1, i + Len(needle)) = needle

NoAttribute(v, attr) ==
  Raise("AttributeError", <<"'", v.t, "' object has no attribute '", attr, "'">>)

\* v.get(k)
PyGet(v, k) ==
  IF IsRaise(v) THEN v
  ELSE IF v.t = "dict" THEN (IF k \in DOMAIN v.f THEN v.f[k] ELSE None)
  ELSE NoAttribute(v, "get")

\* v[k] for a string key k
PyItem(v, k) ==
  IF IsRaise(v) THEN v
  ELSE IF v.t = "dict"
    THEN (IF k \in DOMAIN v.f THEN v.f[k] ELSE Raise("KeyError", <<"'", k, "'">>))
  ELSE IF v.t = "list"
    THEN Raise("TypeError", <<"list indices must be integers or slices, not str">>)
  ELSE IF v.t = "str"
    THEN Raise("TypeError", <<"string indices must be integers, not 'str'">>)
  ELSE Raise("TypeError", <<"'", v.t, "' object is not subscriptable">>)

\* v[0]
PyFirst(v) ==
  IF IsRaise(v) THEN v
  ELSE IF v.t = "list"
    THEN (IF v.e # <<>> THEN v.e[1] ELSE Raise("IndexError", <<"list index out of range">>))
  ELSE IF v.t = "str"
    THEN (IF v.s # <<>> THEN Str(<<v.s[1]>>) ELSE Raise("IndexError", <<"string index out of range">>))
  ELSE IF v.t = "dict" THEN Raise("KeyError", <<"0">>)
  ELSE Raise("TypeError", <<"'", v.t, "' object is not subscriptable">>)

\* v[:50], evaluated for the log line of the message branch
PySlice(v) ==
  IF v.t \in {"str", "list"} THEN v
  ELSE IF v.t = "dict" THEN Raise("TypeError", <<"unhashable type: 'slice'">>)
  ELSE Raise("TypeError", <<"'", v.t, "' object is not subscriptable">>)

(***************************************************************************)
(* base64.b64decode(s) with validate=False.  The characters of a base64   *)
(* string are one token each; "U+00E9" stands for one non-ASCII character.*)
(***************************************************************************)
NonAscii == "U+00E9"

\* binascii's table_a2b_base64: the 6-bit value of a character, 64 if the
\* character is not in the base64 alphabet
B64Value(c) ==
  CASE c = "A" -> 0
    [] c = "Q" -> 16
    [] c = "w" -> 48
    [] c = "/" -> 63
    [] OTHER -> 64

RECURSIVE A2bBase64(_, _, _, _, _, _, _)
A2bBase64(s, i, quad_pos, leftchar, pads, ndata, out) ==
  IF i > Len(s)
    THEN IF quad_pos = 0 THEN [ok |-> TRUE, bytes |-> out]
         ELSE IF quad_pos = 1
           THEN [ok |-> FALSE, exc |-> Raise("binascii.Error",
                  <<"Invalid base64-encoded string: number of data characters (",
                    ToString(ndata),
                    ") cannot be 1 more than a multiple of 4">>)]
         ELSE [ok |-> FALSE, exc |-> Raise("binascii.Error", <<"Incorrect padding">>)]
  ELSE IF s[i] = "="
    THEN IF quad_pos >= 2 /\ quad_pos + pads + 1 >= 4
           THEN [ok |-> TRUE, bytes |-> out]
         ELSE A2bBase64(s, i + 1, quad_pos, leftchar,
                        IF quad_pos >= 2 THEN pads + 1 ELSE pads, ndata, out)
  ELSE LET this_ch == B64Value(s[i]) IN
    IF this_ch >= 64 THEN A2bBase64(s, i + 1, quad_pos, leftchar, pads, ndata, out)
    ELSE CASE quad_pos = 0 ->
                A2bBase64(s, i + 1, 1, this_ch, 0, ndata + 1, out)
           [] quad_pos = 1 ->
                A2bBase64(s, i + 1, 2, this_ch % 16, 0, ndata + 1,
                          Append(out, leftchar * 4 + this_ch \div 16))
           [] quad_pos = 2 ->
                A2bBase64(s, i + 1, 3, this_ch % 4, 0, ndata + 1,
                          Append(out, leftchar * 16 + this_ch \div 4))
           [] quad_pos = 3 ->
                A2bBase64(s, i + 1, 0, 0, 0, ndata + 1,
                          Append(out, leftchar * 64 + this_ch))

B64Decode(v) ==
  IF v.t # "str"
    THEN [ok |-> FALSE, exc |-> Raise("TypeError",
            <<"argument should be a bytes-like object or ASCII string, not '", v.t, "'">>)]
  ELSE IF \E i \in 1..Len(v.s) : v.s[i] = NonAscii
    THEN [ok |-> FALSE, exc |-> Raise("ValueError",
            <<"string argument should contain only ASCII characters">>)]
  ELSE A2bBase64(v.s, 1, 0, 0, 0, 0, <<>>)

(***************************************************************************)
(* bytes.decode('utf-8', errors='ignore'): well-formed sequences become   *)
(* one character each, every maximal ill-formed subsequence is dropped.   *)
(***************************************************************************)
IsCont(b) == b >= 128 /\ b <= 191

\* number of continuation bytes the lead byte asks for, -1 for a byte that
\* cannot start a character
Utf8Need(b) ==
  IF b < 128 THEN 0
  ELSE IF b >= 194 /\ b <= 223 THEN 1
  ELSE IF b >= 224 /\ b <= 239 THEN 2
  ELSE IF b >= 240 /\ b <= 244 THEN 3
  ELSE -1

\* the range the second byte of a sequence must lie in
Utf8Second(lead, b) ==
  CASE lead = 224 -> b >= 160 /\ b <= 191
    [] lead = 237 -> b >= 128 /\ b <= 159
    [] lead = 240 -> b >= 144 /\ b <= 191
    [] lead = 244 -> b >= 128 /\ b <= 143
    [] OTHER -> IsCont(b)

\* how many of the bytes after position i continue the sequence started there
RECURSIVE Utf8Good(_, _, _, _)
Utf8Good(bytes, i, k, need) ==
  IF k > need \/ i + k > Len(bytes) THEN k - 1
  ELSE IF (IF k = 1 THEN Utf8Second(bytes[i], bytes[i + k]) ELSE IsCont(bytes[i + k]))
    THEN Utf8Good(bytes, i, k + 1, need)
  ELSE k - 1

Utf8Char(bytes, i, need) ==
  IF need = 0 THEN "chr(" \o ToString(bytes[i]) \o ")"
  ELSE "chr(utf8 " \o ToString(bytes[i]) \o " " \o ToString(bytes[i + 1])
         \o (IF need >= 2 THEN " " \o ToString(bytes[i + 2]) ELSE "")
         \o (IF need >= 3 THEN " " \o ToString(bytes[i + 3]) ELSE "") \o ")"

RECURSIVE Utf8DecodeIgnore(_, _)
Utf8DecodeIgnore(bytes, i) ==
  IF i > Len(bytes) THEN <<>>
  ELSE LET need == Utf8Need(bytes[i]) IN
    IF need = -1 THEN Utf8DecodeIgnore(bytes, i + 1)
    ELSE LET good == Utf8Good(bytes, i, 1, need) IN
      IF good = need
        THEN <<Utf8Char(bytes, i, need)>> \o Utf8DecodeIgnore(bytes, i + need + 1)
      ELSE Utf8DecodeIgnore(bytes, i + good + 1)

(***************************************************************************)
(* Document extractors.  What pypdf and python-docx make of the uploaded  *)
(* bytes is outside the program: PdfReader / Document either raise or     *)
(* yield pages / paragraphs.  A page is what page.extract_text() does:    *)
(* it returns None, returns a string, or raises.                          *)
(***************************************************************************)
PageRaises == Raise("PdfReadError", <<"cannot read page">>)

\* Variant: a page without text makes the extraction fail.
RECURSIVE PdfConcat_NoTextFails(_, _, _)
PdfConcat_NoTextFails(pages, i, text) ==
  IF i > Len(pages) THEN Str(text)
  ELSE IF IsRaise(pages[i]) \/ ~Truthy(pages[i]) THEN PageRaises
  ELSE PdfConcat_NoTextFails(pages, i + 1, text \o pages[i].s)

\* the loop of read_pdf_text over reader.pages
RECURSIVE PdfConcat(_, _, _)
PdfConcat(pages, i, text) ==
  IF i > Len(pages) THEN Str(text)
  ELSE IF IsRaise(pages[i]) THEN pages[i]
  ELSE PdfConcat(pages, i + 1,
                 text \o (IF Truthy(pages[i]) THEN pages[i].s ELSE <<>>))

\* read_pdf_text(file_content_bytes); pdf is what PdfReader makes of the bytes
read_pdf_text(pdf) ==
  IF ~pdf.parsed THEN None
  ELSE LET text == PdfConcat(pdf.pages, 1, <<>>) IN
       IF IsRaise(text) THEN None ELSE text

RECURSIVE DocxConcat(_, _, _)
DocxConcat(paragraphs, i, text) ==
  IF i > Len(paragraphs) THEN Str(text)
  ELSE DocxConcat(paragraphs, i + 1, text \o paragraphs[i].s \o <<"\n">>)

\* read_docx_text(file_content_bytes); docx is what Document makes of the bytes
read_docx_text(docx) ==
  IF ~docx.parsed THEN None
  ELSE DocxConcat(docx.paragraphs, 1, <<>>)

(***************************************************************************)
(* Gemini gateway.  remote is what the one requests.post of the call      *)
(* meets: an exception of the transport, or a response with a status and  *)
(* a body that is JSON or not.                                             *)
(***************************************************************************)
GEMINI_API_KEY == "<GEMINI_API_KEY>"
DefaultModel == "gemini-2.5-flash"
NotJson == [t |-> "notjson"]

TextUnexpected ==
  Str(<<"Sorry, I received an unexpected response from the AI. Please try again.">>)
TextConnect ==
  Str(<<"Sorry, I couldn't connect to the AI service. Please try again later.">>)
TextInternal ==
  Str(<<"An internal error occurred. Please try again.">>)
VisionUnexpected ==
  Str(<<"Sorry, I received an unexpected response from the AI Vision service. Please try again.">>)
VisionConnect ==
  Str(<<"Sorry, I couldn't process the image with the AI service. Please try again later.">>)
VisionInternal ==
  Str(<<"An internal error occurred during image analysis. Please try again.">>)

GenerateUrl(model) ==
  <<"https://generativelanguage.googleapis.com/v1beta/models/", model,
    ":generateContent?key=", GEMINI_API_KEY>>

\* Variant: only server errors are raised.
RaisesForStatus_ServerOnly(status) == status >= 500 /\ status < 600

\* response.raise_for_status()
RaisesForStatus(status) == status >= 400 /\ status < 600

\* requests.post, raise_for_status and response.json(): the parsed body, or
\* the exception raised on the way.  ConnectionError, Timeout, HTTPError and
\* requests' JSONDecodeError are all RequestException.
PostResult(remote) ==
  IF remote.kind # "response" THEN Raise("RequestException", <<remote.kind>>)
  ELSE IF RaisesForStatus(remote.status)
    THEN Raise("RequestException", <<"HTTPError ", ToString(remote.status)>>)
  ELSE IF remote.json = NotJson
    THEN Raise("RequestException", <<"JSONDecodeError">>)
  ELSE remote.json

\* The condition of the if on the parsed result and the value returned in
\* its true branch: "shape" when the condition is false, an exception when
\* evaluating either raises.
FirstPartText(result) ==
  LET candidates == PyGet(result, "candidates") IN
  IF IsRaise(candidates) THEN candidates
  ELSE IF ~Truthy(candidates) THEN [t |-> "shape"]
  ELSE LET content == PyGet(PyFirst(PyItem(result, "candidates")), "content") IN
    IF IsRaise(content) THEN content
    ELSE IF ~Truthy(content) THEN [t |-> "shape"]
    ELSE LET parts == PyGet(PyItem(PyFirst(PyItem(result, "candidates")), "content"), "parts") IN
      IF IsRaise(parts) THEN parts
      ELSE IF ~Truthy(parts) THEN [t |-> "shape"]
      ELSE PyItem(PyFirst(parts), "text")

\* the try / except of both gateway functions
GatewayReturn(remote, unexpected, connect, internal) ==
  LET result == PostResult(remote) IN
  IF IsRaise(result) THEN connect
  ELSE LET text == FirstPartText(result) IN
    IF text.t = "shape" THEN unexpected
    ELSE IF IsRaise(text) THEN internal
    ELSE text

\* Variant: a failed call is tried once more.
call_gemini_api_Retry(prompt, model, remote) ==
  LET call == [url |-> GenerateUrl(model), parts |-> <<[text |-> prompt]>>,
               role |-> "user"] IN
  [ret |-> GatewayReturn(remote, TextUnexpected, TextConnect, TextInternal),
   calls |-> IF IsRaise(PostResult(remote)) THEN <<call, call>> ELSE <<call>>]

\* call_gemini_api(prompt, model)
call_gemini_api(prompt, model, remote) ==
  [ret |-> GatewayReturn(remote, TextUnexpected, TextConnect, TextInternal),
   calls |-> <<[url |-> GenerateUrl(model),
                parts |-> <<[text |-> prompt]>>,
                role |-> "user"]>>]

ImageInstructions ==
  <<[text |-> <<"Analyze this medical image and provide:">>],
    [text |-> <<"1. **Description**: What the image shows">>],
    [text |-> <<"2. **Findings**: Notable observations">>],
    [text |-> <<"3. **Concerns**: Any potential issues">>],
    [text |-> <<"4. **Recommendations**: Suggested next steps">>]>>

\* analyze_image_with_gemini(base64_image, mime_type)
analyze_image_with_gemini(base64_image, mime_type, remote) ==
  [ret |-> GatewayReturn(remote, VisionUnexpected, VisionConnect, VisionInternal),
   calls |-> <<[url |-> GenerateUrl(DefaultModel),
                parts |-> ImageInstructions \o
                          <<[inlineData |-> [mimeType |-> mime_type, data |-> base64_image]]>>,
                role |-> "none"]>>]

(***************************************************************************)
(* Prompt templates.                                                       *)
(***************************************************************************)
ReportHead == "Analyze the following medical report/text content from '"
ReportSections ==
  "' and provide:\n1. **Summary**: Brief overview of the findings\n2. **Key Metrics**: Important values and their significance\n3. **Potential Concerns**: Any abnormal values or findings\n4. **Recommendations**: Suggested next steps or actions\n\nReport content: "
SymptomHead ==
  "The user is describing a health issue. Provide comprehensive information based on their description, covering the following aspects clearly and concisely, using markdown for readability:\n1.  **Symptoms:** ...\n2.  **Possible Diseases/Conditions:** ...\n3.  **Home Remedies:** ...\n4.  **Dietary Advice:** ...\n5.  **Medicines (General Advice):** ...\n6.  **Exercises/Activities:** ...\n7.  7. **Other Relevant Information:** ...\n\nUser's health issue: \""
SymptomTail == "\"\n"

\* full_prompt of the message branch
SymptomPrompt(user_message) ==
  <<SymptomHead>> \o PyStr(user_message) \o <<SymptomTail>>

\* Variant: the report is wrapped in the template of the message branch.
ReportPrompt_SymptomTemplate(text_content, file_name) ==
  SymptomPrompt(text_content)

\* the f-string of analyze_text_content
ReportPrompt(text_content, file_name) ==
  <<ReportHead>> \o PyStr(file_name) \o <<ReportSections>> \o PyStr(text_content)

\* analyze_text_content(text_content, file_name)
analyze_text_content(text_content, file_name, remote) ==
  call_gemini_api(ReportPrompt(text_content, file_name), DefaultModel, remote)

(***************************************************************************)
(* Flask: what the client gets when an exception leaves a view function.  *)
(***************************************************************************)
Html(page) == [t |-> "html", page |-> page]
HttpException(code, name) ==
  [t |-> "raise", type |-> "HTTPException", msg |-> <<name>>, code |-> code]
NoJsonBody == [t |-> "nocontenttype"]

\* request.get_json()
GetJson(body) ==
  IF body = NoJsonBody THEN HttpException(415, "Unsupported Media Type")
  ELSE IF body = NotJson THEN HttpException(400, "Bad Request")
  ELSE body

\* an exception that no handler of the view caught
FlaskError(exc) ==
  IF exc.type = "HTTPException"
    THEN [status |-> exc.code, body |-> Html(exc.msg[1])]
  ELSE [status |-> 500, body |-> Html("Internal Server Error")]

\* render_template(name)
render_template(name) == [status |-> 200, body |-> Html(name)]

(***************************************************************************)
(* The routes.                                                             *)
(***************************************************************************)
PdfMime == <<"application/pdf">>
DocxMime == <<"application/vnd.openxmlformats-officedocument.wordprocessingml.document">>
PlainMime == <<"text/plain">>
ImagePrefix == <<"image/">>

NoCall(bot) == [ret |-> bot, calls |-> <<>>]

\* Variant: the message does not name the file.
PdfFailed_NoName(file_name) ==
  Str(<<"Could not extract text from PDF. Please ensure it's a readable PDF or describe its content in text.">>)

PdfFailed(file_name) ==
  Str(<<"Could not extract text from PDF '">> \o PyStr(file_name) \o
      <<"'. Please ensure it's a readable PDF or describe its content in text.">>)
DocxFailed(file_name) ==
  Str(<<"Could not extract text from DOCX '">> \o PyStr(file_name) \o
      <<"'. Please ensure it's a valid DOCX file or describe its content in text.">>)
\* Variant: the message does not name the declared type.
Unsupported_NoType(file_type) ==
  Str(<<"Unsupported file type for analysis. Please upload a PDF, DOCX, image, or plain text file.">>)

Unsupported(file_type) ==
  Str(<<"Unsupported file type for analysis: ">> \o PyStr(file_type) \o
      <<". Please upload a PDF, DOCX, image, or plain text file.">>)

\* the if / elif chain on file_type, after the base64 decoding
FileBranch(file_data_b64, file_type, file_name, file_content_bytes, pdf, docx, remote) ==
  IF file_type.t # "str" THEN NoCall(NoAttribute(file_type, "startswith"))
  ELSE IF StartsWith(file_type.s, ImagePrefix)
    THEN analyze_image_with_gemini(file_data_b64, file_type, remote)
  ELSE IF file_type.s = PdfMime
    THEN LET extracted_text == read_pdf_text(pdf) IN
         IF Truthy(extracted_text)
           THEN analyze_text_content(extracted_text, file_name, remote)
         ELSE NoCall(PdfFailed(file_name))
  ELSE IF file_type.s = DocxMime
    THEN LET extracted_text == read_docx_text(docx) IN
         IF Truthy(extracted_text)
           THEN analyze_text_content(extracted_text, file_name, remote)
         ELSE NoCall(DocxFailed(file_name))
  ELSE IF file_type.s = PlainMime
    THEN analyze_text_content(Str(Utf8DecodeIgnore(file_content_bytes, 1)),
                              file_name, remote)
  ELSE NoCall(Unsupported(file_type))

\* Variant: bot_response starts as None.
bot_response_None == None

\* bot_response = ""
bot_response == Str(<<>>)

\* Variant: the fields are tested for presence, not for truth.
FileGiven_Present(file_data_b64, file_type) ==
  file_data_b64 # None /\ file_type # None

\* if file_data_b64 and file_type
FileGiven(file_data_b64, file_type) ==
  Truthy(file_data_b64) /\ Truthy(file_type)

\* the body of the try of chat_api: bot_response (or the exception raised)
\* and the outbound calls made
TryBody(user_message, file_data_b64, file_type, file_name, pdf, docx, remote) ==
  IF FileGiven(file_data_b64, file_type)
    THEN LET decoded == B64Decode(file_data_b64) IN
         IF ~decoded.ok THEN NoCall(decoded.exc)
         ELSE FileBranch(file_data_b64, file_type, file_name, decoded.bytes,
                         pdf, docx, remote)
  ELSE IF Truthy(user_message)
    THEN IF IsRaise(PySlice(user_message)) THEN NoCall(PySlice(user_message))
         ELSE call_gemini_api(SymptomPrompt(user_message), DefaultModel, remote)
  ELSE NoCall(bot_response)

\* chat_api(): the response sent to the client and the outbound calls made
chat_api(body, pdf, docx, remote) ==
  LET data == GetJson(body) IN
  IF IsRaise(data) THEN [response |-> FlaskError(data), calls |-> <<>>]
  ELSE IF data.t # "dict"
    THEN [response |-> FlaskError(NoAttribute(data, "get")), calls |-> <<>>]
  ELSE LET r == TryBody(PyGet(data, "message"), PyGet(data, "fileData"),
                        PyGet(data, "fileType"), PyGet(data, "fileName"),
                        pdf, docx, remote) IN
    IF IsRaise(r.ret)
      THEN [response |->
              [status |-> 500,
               body |-> Dict([error |->
                         Str(<<"An internal server error occurred: ">> \o r.ret.msg)])],
            calls |-> r.calls]
    ELSE [response |-> [status |-> 200, body |-> Dict([response |-> r.ret])],
          calls |-> r.calls]

\* home()
home == render_template("index.html")

\* chat_page()
chat_page == render_template("chatbot.html")

(***************************************************************************)
(* Inputs: the requests a client can send and the behaviours of the       *)
(* collaborators (pypdf, python-docx, the Gemini service).                 *)
(***************************************************************************)
SeqsUpTo(S, n) == UNION {[1..k -> S] : k \in 0..n}

B64Chars == {"Q", "/", "="}
Messages == {None, Str(<<>>), Str(<<"I have a headache">>), Num(5)}
FileDatas ==
  {None, Num(5), Str(<<"!">>), Str(<<NonAscii>>)}
    \cup {Str(s) : s \in SeqsUpTo(B64Chars, MaxFileDataLen)}
FileTypes ==
  {None, Str(<<>>), Num(5),
   Str(<<"image/", "png">>), Str(PdfMime), Str(DocxMime), Str(PlainMime),
   Str(<<"text/plain", "; charset=utf-8">>), Str(<<"application/zip">>)}
FileNames == {None, Str(<<"report.pdf">>)}

Bodies ==
  {NoJsonBody, NotJson, None, Num(5), Str(<<"hi">>), List(<<>>), EmptyDict}
    \cup {Dict([message |-> m, fileData |-> d, fileType |-> ty, fileName |-> n]) :
            m \in Messages, d \in FileDatas, ty \in FileTypes, n \in FileNames}

Requests ==
  {[route |-> "/", body |-> None], [route |-> "/chat", body |-> None]}
    \cup {[route |-> "/api/chat", body |-> b] : b \in Bodies}

NotConsulted == [t |-> "notconsulted"]

Pages == {None, Str(<<>>), Str(<<"BP 120/80">>), PageRaises}
PdfBroken == [parsed |-> FALSE, pages |-> <<>>]
PdfLibs ==
  {PdfBroken} \cup {[parsed |-> TRUE, pages |-> p] : p \in SeqsUpTo(Pages, MaxPages)}

Paragraphs == {Str(<<>>), Str(<<"Hb 13.5">>)}
DocxBroken == [parsed |-> FALSE, paragraphs |-> <<>>]
DocxLibs ==
  {DocxBroken} \cup
  {[parsed |-> TRUE, paragraphs |-> p] : p \in SeqsUpTo(Paragraphs, MaxParagraphs)}

Response(status, json) == [kind |-> "response", status |-> status, json |-> json]
Answer(text) ==
  Dict([candidates |-> List(<<Dict([content |-> Dict([parts |-> List(<<Dict(text)>>)])])>>)])
RemoteOk == Response(200, Answer([text |-> Str(<<"Drink water.">>)]))
Remotes ==
  {[kind |-> "ConnectionError"], [kind |-> "Timeout"],
   Response(404, Dict([error |-> Dict([code |-> Num(404)])])),
   Response(503, NotJson),
   Response(200, NotJson),
   Response(200, None),
   Response(200, List(<<>>)),
   Response(200, EmptyDict),
   Response(200, Dict([candidates |-> List(<<>>)])),
   Response(200, Dict([candidates |-> Dict([error |-> Num(1)])])),
   Response(200, Dict([candidates |-> List(<<EmptyDict>>)])),
   Response(200, Dict([candidates |-> List(<<Str(<<"x">>)>>)])),
   Response(200, Dict([candidates |-> List(<<Dict([content |-> Dict([parts |-> List(<<>>)])])>>)])),
   Response(200, Answer(<<>>)),
   Response(200, Answer([text |-> Str(<<>>)])),
   RemoteOk}

(***************************************************************************)
(* State: one request, from its arrival to the response sent for it.      *)
(***************************************************************************)
\* request:  the request received, route and body
\* pc:       "pending" until the view function has returned, then "done"
\* response: the response sent, status and body
\* calls:    the outbound calls made to the Gemini service, in order
\* pdf:      what PdfReader made of the upload, if read_pdf_text ran
\* docx:     what Document made of the upload, if read_docx_text ran
\* remote:   what the outbound call met, if one was made
VARIABLES request, pc, response, calls, pdf, docx, remote

vars == <<request, pc, response, calls, pdf, docx, remote>>

\* A collaborator is consulted for a request when its behaviour can change
\* what the view function does.
PdfChoices(body) ==
  IF chat_api(body, PdfBroken, DocxBroken, RemoteOk)
       # chat_api(body, [parsed |-> TRUE, pages |-> <<Str(<<"BP 120/80">>)>>],
                  DocxBroken, RemoteOk)
    THEN PdfLibs ELSE {NotConsulted}
DocxChoices(body) ==
  IF chat_api(body, PdfBroken, DocxBroken, RemoteOk)
       # chat_api(body, PdfBroken,
                  [parsed |-> TRUE, paragraphs |-> <<Str(<<"Hb 13.5">>)>>], RemoteOk)
    THEN DocxLibs ELSE {NotConsulted}
RemoteChoices(body, p, d) ==
  IF chat_api(body, p, d, RemoteOk).calls # <<>> THEN Remotes ELSE {NotConsulted}

Init ==
  /\ request \in Requests
  /\ pc = "pending"
  /\ response = NotConsulted
  /\ calls = <<>>
  /\ pdf = NotConsulted
  /\ docx = NotConsulted
  /\ remote = NotConsulted

\* GET /
Home ==
  /\ pc = "pending" /\ request.route = "/"
  /\ response' = home
  /\ pc' = "done"
  /\ UNCHANGED <<request, calls, pdf, docx, remote>>

\* GET /chat
ChatPage ==
  /\ pc = "pending" /\ request.route = "/chat"
  /\ response' = chat_page
  /\ pc' = "done"
  /\ UNCHANGED <<request, calls, pdf, docx, remote>>

\* POST /api/chat
ChatApi ==
  /\ pc = "pending" /\ request.route = "/api/chat"
  /\ \E p \in PdfChoices(request.body), d \in DocxChoices(request.body) :
       \E r \in RemoteChoices(request.body, p, d) :
         LET out == chat_api(request.body, p, d, r) IN
           /\ response' = out.response
           /\ calls' = out.calls
           /\ pdf' = p
           /\ docx' = d
           /\ remote' = r
  /\ pc' = "done"
  /\ UNCHANGED request

Next == Home \/ ChatPage \/ ChatApi

Spec == Init /\ [][Next]_vars

(***************************************************************************)
(* Vocabulary of the properties.                                           *)
(***************************************************************************)
Handled == pc = "done" /\ request.route = "/api/chat"
IsObject == request.body.t = "dict"
Message == PyGet(request.body, "message")
FileData == PyGet(request.body, "fileData")
FileType == PyGet(request.body, "fileType")
FileName == PyGet(request.body, "fileName")
Status == response.status
JsonBody(key) == response.body.t = "dict" /\ DOMAIN response.body.f = {key}
BotText == response.body.f.response
NonEmptyStr(v) == v.t = "str" /\ v.s # <<>>

\* the text parts of an outbound call, and all those of the request
TextParts(c) ==
  {c.parts[j].text : j \in {k \in DOMAIN c.parts : "text" \in DOMAIN c.parts[k]}}
Prompts == UNION {TextParts(calls[i]) : i \in DOMAIN calls}
IsImageCall(c) == \E j \in DOMAIN c.parts : "inlineData" \in DOMAIN c.parts[j]
IsSymptomPrompt(p) == StartsWith(p, <<SymptomHead>>)

IsImageType(ft) == ft.t = "str" /\ StartsWith(ft.s, ImagePrefix)
SupportedType(ft) ==
  ft.t = "str" /\ (StartsWith(ft.s, ImagePrefix) \/ ft.s \in {PdfMime, DocxMime, PlainMime})
UnsupportedType(ft) == ft.t = "str" /\ ~SupportedType(ft)

TransportFailure(r) ==
  \/ r.kind \in {"ConnectionError", "Timeout"}
  \/ r.kind = "response" /\ r.status \notin 200..299

\* the body has the shape candidates[0].content.parts[0].text
WellShaped(j) ==
  /\ j.t = "dict" /\ "candidates" \in DOMAIN j.f
  /\ LET c == j.f.candidates IN
       /\ c.t = "list" /\ c.e # <<>>
       /\ c.e[1].t = "dict" /\ "content" \in DOMAIN c.e[1].f
       /\ LET content == c.e[1].f.content IN
            /\ content.t = "dict" /\ "parts" \in DOMAIN content.f
            /\ LET parts == content.f.parts IN
                 /\ parts.t = "list" /\ parts.e # <<>>
                 /\ parts.e[1].t = "dict" /\ "text" \in DOMAIN parts.e[1].f

NoPageRaises(pages) == \A i \in DOMAIN pages : ~IsRaise(pages[i])

\* the texts of the pages that have one, in page order
RECURSIVE JoinTexts(_)
JoinTexts(pages) ==
  IF pages = <<>> THEN <<>>
  ELSE (IF Head(pages).t = "str" THEN Head(pages).s ELSE <<>>) \o JoinTexts(Tail(pages))

(***************************************************************************)
(* Properties.                                                             *)
(***************************************************************************)

\* C1: every POST /api/chat request ends in status 200 with a body
\* {"response": <string>} or in status 500 with a body {"error": <string>},
\* whatever its body; no failure escapes the catch-all of the handler.
C1_TwoOutcomes ==
  Handled =>
    \/ Status = 200 /\ JsonBody("response") /\ response.body.f.response.t = "str"
    \/ Status = 500 /\ JsonBody("error") /\ response.body.f.error.t = "str"

\* C2, as stated: when fileData and fileType are both present (read here as
\* non-empty strings, the reading most favourable to the statement) and
\* fileType is unsupported, no outbound call is made and the string returned
\* to the caller includes the declared fileType.
C2_UnsupportedAsStated ==
  (Handled /\ IsObject /\ NonEmptyStr(FileData) /\ NonEmptyStr(FileType)
     /\ UnsupportedType(FileType)) =>
    /\ calls = <<>>
    /\ \/ JsonBody("response") /\ BotText.t = "str" /\ Contains(BotText.s, FileType.s)
       \/ JsonBody("error") /\ Contains(response.body.f.error.s, FileType.s)

\* C2, amended: when fileData and fileType are both non-empty strings and
\* fileType is unsupported, no outbound call is made; if fileData decodes as
\* base64 the answer is 200 with a response string that includes the declared
\* fileType, and if it does not decode the answer is the 500 error.
C2_UnsupportedTypeNamed ==
  (Handled /\ IsObject /\ NonEmptyStr(FileData) /\ NonEmptyStr(FileType)
     /\ UnsupportedType(FileType)) =>
    /\ calls = <<>>
    /\ IF B64Decode(FileData).ok
         THEN Status = 200 /\ JsonBody("response") /\ BotText.t = "str"
              /\ Contains(BotText.s, FileType.s)
       ELSE Status = 500 /\ JsonBody("error")

C2_Witness ==
  /\ Handled /\ IsObject
  /\ FileData = Str(<<"Q", "Q", "=", "=">>)
  /\ FileType = Str(<<"text/plain", "; charset=utf-8">>)
  /\ NonEmptyStr(Message)
  /\ Status = 200 /\ calls = <<>>
  /\ Contains(BotText.s, <<"text/plain", "; charset=utf-8">>)

\* C3: when the PDF or DOCX extractor signals failure (returns None), the
\* handler answers 200 with the fixed fallback string, which contains the
\* fileName, and makes no outbound call; no exception reaches the HTTP layer.
C3_ExtractionFailure ==
  (Handled /\ (\/ pdf # NotConsulted /\ read_pdf_text(pdf) = None
               \/ docx # NotConsulted /\ read_docx_text(docx) = None)) =>
    /\ Status = 200 /\ JsonBody("response") /\ BotText.t = "str"
    /\ StartsWith(BotText.s,
                  IF pdf # NotConsulted THEN <<"Could not extract text from PDF '">>
                  ELSE <<"Could not extract text from DOCX '">>)
    /\ Contains(BotText.s, PyStr(FileName))
    /\ calls = <<>>

C3_Witness ==
  /\ Handled /\ pdf # NotConsulted
  /\ pdf.parsed /\ ~NoPageRaises(pdf.pages)
  /\ FileName = Str(<<"report.pdf">>)
  /\ Status = 200 /\ Contains(BotText.s, <<"report.pdf">>)
  /\ calls = <<>>

C5_NoSymptomPromptForFile ==
  (Handled /\ IsObject /\ FileData # None /\ FileType # None
     /\ SupportedType(FileType) /\ Message = None) =>
    \A p \in Prompts : ~IsSymptomPrompt(p)

C5_Witness ==
  /\ Handled /\ IsObject
  /\ FileData = Str(<<"/", "Q", "=", "=">>) /\ FileType = Str(PlainMime)
  /\ Message = None
  /\ Len(calls) = 1
  /\ \E p \in Prompts : StartsWith(p, <<ReportHead>>)

\* C6: a request with neither message nor any file field gets status 200 with
\* body {"response": ""} and no outbound call is made.
C6_EmptyRequest ==
  (Handled /\ IsObject /\ Message = None /\ FileData = None /\ FileType = None
     /\ FileName = None) =>
    /\ Status = 200
    /\ response.body = Dict([response |-> Str(<<>>)])
    /\ calls = <<>>

C6_Witness ==
  /\ Handled /\ request.body = EmptyDict
  /\ Status = 200 /\ calls = <<>>

\* the request reaches one of the two gateway functions
GatewayReached ==
  /\ IsObject
  /\ IF Truthy(FileData) /\ Truthy(FileType)
       THEN /\ FileData.t = "str" /\ B64Decode(FileData).ok /\ FileType.t = "str"
            /\ \/ IsImageType(FileType)
               \/ FileType.s = PlainMime
               \/ FileType.s = PdfMime /\ pdf.parsed /\ NoPageRaises(pdf.pages)
                    /\ JoinTexts(pdf.pages) # <<>>
               \/ FileType.s = DocxMime /\ docx.parsed /\ docx.paragraphs # <<>>
     ELSE NonEmptyStr(Message)

\* C7: at most one outbound call is made per request, and a request that
\* reaches a gateway function makes exactly one, with no second attempt
\* after a failed call.
C7_OneOutboundCall ==
  Handled =>
    /\ Len(calls) <= 1
    /\ GatewayReached => Len(calls) = 1
    /\ remote # NotConsulted => Len(calls) = 1

C7_Witness ==
  /\ Handled /\ GatewayReached
  /\ remote # NotConsulted /\ remote.kind = "ConnectionError"
  /\ Len(calls) = 1 /\ ~IsImageCall(calls[1])

\* C8, as stated: whenever the PDF parses, also when every page yields no
\* text, the handler takes the success branch (text-content template, then
\* generateText); the failure string occurs only if the PDF cannot be parsed.
C8_PdfAsStated ==
  (Handled /\ pdf # NotConsulted /\ pdf.parsed /\ NoPageRaises(pdf.pages)) =>
    /\ Len(calls) = 1
    /\ \E p \in Prompts : StartsWith(p, <<ReportHead>>)

\* C8, amended: a page yielding no text contributes an empty string and is
\* not a failure by itself; the failure string occurs exactly when the PDF
\* cannot be parsed or the text of all its pages together is empty, and
\* whenever the PDF parses and some page yields text the handler sends the
\* text-content template, filled with the page texts in page order, to
\* generateText.
C8_PdfNonEmptyText ==
  (Handled /\ pdf # NotConsulted) =>
    IF pdf.parsed /\ NoPageRaises(pdf.pages) /\ JoinTexts(pdf.pages) # <<>>
      THEN /\ Len(calls) = 1
           /\ Prompts = {<<ReportHead>> \o PyStr(FileName) \o <<ReportSections>>
                           \o JoinTexts(pdf.pages)}
    ELSE /\ calls = <<>>
         /\ Status = 200 /\ JsonBody("response") /\ BotText.t = "str"
         /\ StartsWith(BotText.s, <<"Could not extract text from PDF '">>)

C8_Witness ==
  /\ Handled /\ pdf # NotConsulted /\ pdf.parsed
  /\ pdf.pages = <<None, Str(<<"BP 120/80">>)>>
  /\ FileName = Str(<<"report.pdf">>)
  /\ Len(calls) = 1
  /\ \E p \in Prompts : Contains(p, <<"BP 120/80">>) /\ Contains(p, <<"report.pdf">>)

\* C9: the gateway functions classify each failure into its own fallback
\* string: a transport error or non-2xx status gives the connectivity
\* fallback, a received response whose body is not of the shape
\* candidates[0].content.parts[0].text (not JSON, not an object, a first part
\* without text) gives the malformed-response fallback, and a response of
\* that shape gives its text.
C9_FailureClasses ==
  (Handled /\ remote # NotConsulted) =>
    /\ Status = 200 /\ JsonBody("response")
    /\ LET image == IsImageCall(calls[1]) IN
       IF TransportFailure(remote)
         THEN BotText = (IF image THEN VisionConnect ELSE TextConnect)
       ELSE IF remote.json = NotJson \/ ~WellShaped(remote.json)
         THEN BotText = (IF image THEN VisionUnexpected ELSE TextUnexpected)
       ELSE BotText = remote.json.f.candidates.e[1].f.content.f.parts.e[1].f.text

\* C10: the file branch is taken only when fileData and fileType are both
\* non-empty.  Otherwise the file fields are ignored: a non-empty message is
\* sent in the symptom template to generateText, and without one the answer
\* is 200 with an empty response and no outbound call.  When both file
\* fields are non-empty the message is used in no prompt.
C10_FileFieldsBothOrIgnored ==
  (Handled /\ IsObject /\ Message.t \in {"NoneType", "str"}) =>
    IF Truthy(FileData) /\ Truthy(FileType)
      THEN \A p \in Prompts :
             /\ ~IsSymptomPrompt(p)
             /\ NonEmptyStr(Message) => ~Contains(p, Message.s)
    ELSE IF NonEmptyStr(Message)
      THEN /\ Status = 200 /\ JsonBody("response")
           /\ Len(calls) = 1 /\ ~IsImageCall(calls[1])
           /\ \A p \in Prompts : IsSymptomPrompt(p) /\ Contains(p, Message.s)
    ELSE /\ Status = 200
         /\ response.body = Dict([response |-> Str(<<>>)])
         /\ calls = <<>>

C10_Witness ==
  /\ Handled /\ IsObject
  /\ FileData = Str(<<"Q", "Q", "=", "=">>) /\ FileType = Str(<<>>)
  /\ NonEmptyStr(Message)
  /\ Len(calls) = 1
  /\ \E p \in Prompts : IsSymptomPrompt(p) /\ Contains(p, Message.s)

=============================================================================
